---- MODULE Spec2Model ----
(***************************************************************************)
(* Credential and token lifecycle of the authentication backend:           *)
(* registration, login, profile retrieval and password reset, as the       *)
(* route handlers run them against the Sequelize User model, bcrypt and    *)
(* jsonwebtoken.                                                           *)
(*                                                                         *)
(* Handlers are async functions.  Each handler is cut at its awaited store *)
(* call: one action runs the handler from its entry to the point where the *)
(* store call is issued, a second one performs the store call and runs the *)
(* handler to its response.  Requests in flight interleave between the two.*)
(*                                                                         *)
(* bcrypt and jsonwebtoken are modelled symbolically: a hash is the term   *)
(* (cost, salt, preimage), a token is the term (payload, signing key).     *)
(***************************************************************************)
EXTENDS Naturals, Sequences, FiniteSets

(***************************************************************************)
(* Bounds of the model.                                                    *)
(***************************************************************************)
MaxRequests == 3      \* requests accepted over one behaviour
MaxInFlight == 2      \* requests suspended at an await at the same time
NumSalts == 1         \* distinct salts bcrypt may draw
MaxNow == 3600        \* last instant of the clock, in seconds

(***************************************************************************)
(* Program constants.                                                      *)
(***************************************************************************)
SaltRounds == 10          \* bcrypt.hash(password, 10)
ExpiresIn == 3600         \* jwt.sign(..., { expiresIn: "1h" }), in seconds
RegUserMin == 5           \* registerSchema: username .min(5)
LoginUserMin == 3         \* loginSchema: username .min(3)
UserMax == 30             \* username .max(30)
PasswordMin == 8          \* password .min(8)

(***************************************************************************)
(* Input strings.  TLC cannot look inside a string, so every input string  *)
(* is spelled out once and the validators work on the spelling.            *)
(***************************************************************************)
Undefined == ""           \* a field missing from req.body (falsy, like "")

Usernames == {"alice01", "carol55"}
Passwords == {"Abcdef1!", "Qwerty9#"}
Emails == {"a@x.com", "nomail"}

\* what a client may put in the password field: a password, or nothing
PasswordInputs == Passwords \cup {Undefined}

Spell(s) ==
    CASE s = "alice01"  -> <<"a", "l", "i", "c", "e", "0", "1">>
      [] s = "carol55"  -> <<"c", "a", "r", "o", "l", "5", "5">>
      [] s = "bob"      -> <<"b", "o", "b">>
      [] s = "Abcdef1!" -> <<"A", "b", "c", "d", "e", "f", "1", "!">>
      [] s = "Qwerty9#" -> <<"Q", "w", "e", "r", "t", "y", "9", "#">>
      [] s = "wrong"    -> <<"w", "r", "o", "n", "g">>
      [] s = "a@x.com"  -> <<"a", "@", "x", ".", "c", "o", "m">>
      [] s = "b@x.com"  -> <<"b", "@", "x", ".", "c", "o", "m">>
      [] s = "nomail"   -> <<"n", "o", "m", "a", "i", "l">>
      [] OTHER          -> <<>>

Lower == {"a", "b", "c", "d", "e", "f", "g", "h", "i", "j", "k", "l", "m",
          "n", "o", "p", "q", "r", "s", "t", "u", "v", "w", "x", "y", "z"}
Upper == {"A", "B", "C", "D", "E", "F", "G", "H", "I", "J", "K", "L", "M",
          "N", "O", "P", "Q", "R", "S", "T", "U", "V", "W", "X", "Y", "Z"}
Digit == {"0", "1", "2", "3", "4", "5", "6", "7", "8", "9"}
Special == {"@", "$", "!", "%", "*", "?", "&", "#"}

CharsOf(s) == {Spell(s)[i] : i \in 1..Len(Spell(s))}

\* Joi.string().alphanum()
alphanum(s) == CharsOf(s) \subseteq (Lower \cup Upper \cup Digit)

\* ^(?=.*[a-z])(?=.*[A-Z])(?=.*\d)(?=.*[@$!%*?&#])[A-Za-z\d@$!%*?&#]{8,}$
passwordPattern(s) ==
    /\ CharsOf(s) \cap Lower # {}
    /\ CharsOf(s) \cap Upper # {}
    /\ CharsOf(s) \cap Digit # {}
    /\ CharsOf(s) \cap Special # {}
    /\ CharsOf(s) \subseteq (Lower \cup Upper \cup Digit \cup Special)
    /\ Len(Spell(s)) >= PasswordMin

\* Joi.string().email(): one "@", a local part, a domain of two segments or more
isEmail(s) ==
    LET w == Spell(s)
        ats == {i \in 1..Len(w) : w[i] = "@"}
    IN  /\ Cardinality(ats) = 1
        /\ LET at == CHOOSE i \in ats : TRUE
               dots == {i \in (at + 1)..Len(w) : w[i] = "."}
           IN  /\ at > 1
               /\ dots # {}
               /\ \A i \in dots : i > at + 1 /\ i < Len(w) /\ (i + 1) \notin dots
               /\ \A i \in 1..Len(w) : w[i] \in (Lower \cup Upper \cup Digit \cup {"@", "."})

Valid == "valid"      \* schema.validate(req.body) returned no error

\* registerSchema.validate: the message of the first rule that fails
registerSchema(body) ==
    CASE body.username = Undefined -> "Username is required."
      [] ~alphanum(body.username) -> "Username must only contain alphanumeric characters."
      [] Len(Spell(body.username)) < RegUserMin -> "Username must be at least 5 characters long."
      [] Len(Spell(body.username)) > UserMax -> "Username must not exceed 30 characters."
      [] body.password = Undefined -> "Password is required."
      [] Len(Spell(body.password)) < PasswordMin -> "Password must be at least 8 characters long."
      [] ~passwordPattern(body.password) ->
            "Password must include at least one uppercase letter, one lowercase letter, one number, and one special character."
      [] body.email = Undefined -> "Email is required."
      [] ~isEmail(body.email) -> "Email must be a valid email address."
      [] OTHER -> Valid

\* loginSchema.validate
loginSchema(body) ==
    CASE body.username = Undefined -> "Username is required."
      [] ~alphanum(body.username) -> "Username must only contain alphanumeric characters."
      [] Len(Spell(body.username)) < LoginUserMin -> "Username must be at least 3 characters long."
      [] Len(Spell(body.username)) > UserMax -> "Username must not exceed 30 characters."
      [] body.password = Undefined -> "Password is required."
      [] OTHER -> Valid

\* resetPasswordSchema.validate
resetPasswordSchema(body) ==
    CASE body.email = Undefined -> "Email is required."
      [] ~isEmail(body.email) -> "Email must be a valid email address."
      [] OTHER -> Valid

(***************************************************************************)
(* bcrypt.  A hash is the term (cost, salt, preimage); a stored password   *)
(* that is no hash is the term of kind "plain".                            *)
(***************************************************************************)
Salts == 1..NumSalts

NoHash == [kind |-> "none", cost |-> 0, salt |-> 0, pre |-> ""]

\* bcrypt.hash(data, rounds) with the salt it drew
bcrypt_hash(data, rounds, salt) ==
    [kind |-> "bcrypt", cost |-> rounds, salt |-> salt, pre |-> data]

\* bcrypt.compare that accepts every password for a well-formed hash
bcrypt_compare_anyPassword(data, encrypted) ==
    encrypted.kind = "bcrypt"

\* bcrypt.compare(data, encrypted): rehash with the salt and cost of encrypted
bcrypt_compare(data, encrypted) ==
    /\ encrypted.kind = "bcrypt"
    /\ bcrypt_hash(data, encrypted.cost, encrypted.salt) = encrypted

(***************************************************************************)
(* jsonwebtoken.  A token is the term (payload {id, iat, exp}, key).       *)
(***************************************************************************)
NoToken == [form |-> "absent", id |-> 0, iat |-> 0, exp |-> 0, key |-> ""]
Garbage == [form |-> "garbage", id |-> 0, iat |-> 0, exp |-> 0, key |-> ""]

\* jwt.sign({ id }, secret, { expiresIn: "1h" }) at clock reading t
jwt_sign(id, secret, t) ==
    IF secret = Undefined
    THEN [err |-> "Error", token |-> NoToken]
    ELSE [err |-> "",
          token |-> [form |-> "jwt", id |-> id, iat |-> t, exp |-> t + ExpiresIn,
                     key |-> secret]]

\* jwt.verify called with { ignoreExpiration: true }
jwt_verify_ignoreExpiration(token, secret, t) ==
    CASE secret = Undefined ->
            [err |-> "JsonWebTokenError", why |-> "secret or public key must be provided", id |-> 0]
      [] token.form # "jwt" ->
            [err |-> "JsonWebTokenError", why |-> "jwt malformed", id |-> 0]
      [] token.key # secret ->
            [err |-> "JsonWebTokenError", why |-> "invalid signature", id |-> 0]
      [] OTHER ->
            [err |-> "", why |-> "", id |-> token.id]

\* jwt.verify that lets a token pass at the very instant it expires
jwt_verify_lateExpiry(token, secret, t) ==
    CASE secret = Undefined ->
            [err |-> "JsonWebTokenError", why |-> "secret or public key must be provided", id |-> 0]
      [] token.form # "jwt" ->
            [err |-> "JsonWebTokenError", why |-> "jwt malformed", id |-> 0]
      [] token.key # secret ->
            [err |-> "JsonWebTokenError", why |-> "invalid signature", id |-> 0]
      [] t > token.exp ->
            [err |-> "TokenExpiredError", why |-> "jwt expired", id |-> 0]
      [] OTHER ->
            [err |-> "", why |-> "", id |-> token.id]

\* jwt.verify for which a token lapses half way through its lifetime
jwt_verify_halfLife(token, secret, t) ==
    CASE secret = Undefined ->
            [err |-> "JsonWebTokenError", why |-> "secret or public key must be provided", id |-> 0]
      [] token.form # "jwt" ->
            [err |-> "JsonWebTokenError", why |-> "jwt malformed", id |-> 0]
      [] token.key # secret ->
            [err |-> "JsonWebTokenError", why |-> "invalid signature", id |-> 0]
      [] 2 * (t - token.iat) >= token.exp - token.iat ->
            [err |-> "TokenExpiredError", why |-> "jwt expired", id |-> 0]
      [] OTHER ->
            [err |-> "", why |-> "", id |-> token.id]

\* jwt.decode in the place of jwt.verify: the signature is not checked
jwt_verify_decodeOnly(token, secret, t) ==
    CASE secret = Undefined ->
            [err |-> "JsonWebTokenError", why |-> "secret or public key must be provided", id |-> 0]
      [] token.form # "jwt" ->
            [err |-> "JsonWebTokenError", why |-> "jwt malformed", id |-> 0]
      [] t >= token.exp ->
            [err |-> "TokenExpiredError", why |-> "jwt expired", id |-> 0]
      [] OTHER ->
            [err |-> "", why |-> "", id |-> token.id]

\* jwt.verify(token, secret) at clock reading t: parse, then signature, then exp
jwt_verify(token, secret, t) ==
    CASE secret = Undefined ->
            [err |-> "JsonWebTokenError", why |-> "secret or public key must be provided", id |-> 0]
      [] token.form # "jwt" ->
            [err |-> "JsonWebTokenError", why |-> "jwt malformed", id |-> 0]
      [] token.key # secret ->
            [err |-> "JsonWebTokenError", why |-> "invalid signature", id |-> 0]
      [] t >= token.exp ->
            [err |-> "TokenExpiredError", why |-> "jwt expired", id |-> 0]
      [] OTHER ->
            [err |-> "", why |-> "", id |-> token.id]

(***************************************************************************)
(* The User model and the store behind it.                                 *)
(***************************************************************************)
\* the attributes sequelize.define("User", ...) declares; sync({ alter: true })
\* makes the table have exactly these columns
Columns == {"id", "username", "password"}
UniqueColumns == {"id", "username"}

NoRow == [id |-> 0, username |-> "", password |-> NoHash]

\* the value of a column in a row
Cell(row, col) ==
    CASE col = "id" -> row.id
      [] col = "username" -> row.username
      [] OTHER -> ""

\* User.findOne({ where: { [col]: value } }) on table rows
User_findOne(rows, col, value) ==
    IF col \notin Columns
    THEN [err |-> "SequelizeDatabaseError", row |-> NoRow]
    ELSE IF \E r \in rows : Cell(r, col) = value
         THEN [err |-> "", row |-> CHOOSE r \in rows : Cell(r, col) = value]
         ELSE [err |-> "", row |-> NoRow]

\* User.findByPk(id, { attributes }) on table rows; no attributes option selects
\* every column
User_findByPk(rows, id, attributes) ==
    IF ~(attributes \subseteq Columns)
    THEN [err |-> "SequelizeDatabaseError", row |-> NoRow]
    ELSE IF \E r \in rows : r.id = id
         THEN LET r == CHOOSE x \in rows : x.id = id
              IN  [err |-> "",
                   row |-> [id |-> IF "id" \in attributes THEN r.id ELSE 0,
                            username |-> IF "username" \in attributes THEN r.username ELSE "",
                            password |-> IF "password" \in attributes THEN r.password ELSE NoHash]]
         ELSE [err |-> "", row |-> NoRow]

\* User.create on a table that has no unique index on username
User_create_noUniqueIndex(rows, values) ==
    LET row == [id |-> Cardinality(rows) + 1,
                username |-> values.username,
                password |-> values.password]
    IN  [err |-> "", row |-> row, rows |-> rows \cup {row}]

\* User.create(values): the values of undeclared attributes are dropped, the id
\* defaults to a fresh UUID, the unique index on username rejects a second row
User_create(rows, values) ==
    IF \E r \in rows : r.username = values.username
    THEN [err |-> "SequelizeUniqueConstraintError", row |-> NoRow, rows |-> rows]
    ELSE LET row == [id |-> Cardinality(rows) + 1,
                     username |-> values.username,
                     password |-> values.password]
         IN  [err |-> "", row |-> row, rows |-> rows \cup {row}]

\* user.update that writes nothing
User_update_nothing(rows, id, password) == rows

\* user.update whose UPDATE has no WHERE clause
User_update_everyRow(rows, id, password) ==
    {[r EXCEPT !.password = password] : r \in rows}

\* user.update({ password }): UPDATE ... WHERE id = user.id
User_update(rows, id, password) ==
    {IF r.id = id THEN [r EXCEPT !.password = password] ELSE r : r \in rows}

(***************************************************************************)
(* Requests and responses.                                                 *)
(***************************************************************************)
\* res.status(status).json({ message, token, userId, user })
NoUser == [id |-> 0, username |-> "", email |-> "", password |-> NoHash]

json(status, message) ==
    [status |-> status, message |-> message, token |-> NoToken, userId |-> 0,
     user |-> NoUser]

NoResponse == json(0, "")

\* the user object serialized in a response: the attributes the query selected
toJSON(row, attributes) ==
    [id |-> IF "id" \in attributes THEN row.id ELSE 0,
     username |-> IF "username" \in attributes THEN row.username ELSE "",
     email |-> "",
     password |-> IF "password" \in attributes THEN row.password ELSE NoHash]

(***************************************************************************)
(* The handlers, as functions of what they read.  Each returns the         *)
(* response it sends, with the branch it took (note) for the properties.   *)
(***************************************************************************)
\* userRoutes.js register: if (!username || !password)
userRoutes_registerCheck(body) ==
    IF body.username = Undefined \/ body.password = Undefined
    THEN "Username and password are required."
    ELSE Valid

\* the validation a register request meets on the router that serves it
register_validate(via, body) ==
    IF via = "auth" THEN registerSchema(body) ELSE userRoutes_registerCheck(body)

\* register that passes the password on as it came
register_values_plain(via, body, hashedPassword) ==
    [username |-> body.username,
     password |-> [kind |-> "plain", cost |-> 0, salt |-> 0, pre |-> body.password],
     email |-> IF via = "auth" THEN body.email ELSE Undefined]

\* the values a register handler passes to User.create
register_values(via, body, hashedPassword) ==
    [username |-> body.username,
     password |-> hashedPassword,
     email |-> IF via = "auth" THEN body.email ELSE Undefined]

\* register that, on a unique-constraint error, overwrites the password of the
\* record that is in the way and still answers 400
register_create_overwritesOnConflict(rows, via, body, hashedPassword) ==
    LET r == User_create(rows, register_values(via, body, hashedPassword))
    IN  CASE r.err = "" ->
                [rows |-> r.rows, note |-> "created",
                 res |-> [json(201, "User registered successfully.")
                             EXCEPT !.userId = r.row.id]]
          [] r.err = "SequelizeUniqueConstraintError" ->
                [rows |-> {IF x.username = body.username
                           THEN [x EXCEPT !.password = hashedPassword] ELSE x : x \in rows},
                 note |-> "duplicate",
                 res |-> json(400, IF via = "auth"
                                   THEN "Username or email already exists."
                                   ELSE "Username already exists.")]
          [] OTHER ->
                [rows |-> rows, note |-> "error",
                 res |-> json(500, "Internal server error.")]

\* register, from User.create to the response
register_create(rows, via, body, hashedPassword) ==
    LET r == User_create(rows, register_values(via, body, hashedPassword))
    IN  CASE r.err = "" ->
                [rows |-> r.rows, note |-> "created",
                 res |-> [json(201, "User registered successfully.")
                             EXCEPT !.userId = r.row.id]]
          [] r.err = "SequelizeUniqueConstraintError" ->
                [rows |-> rows, note |-> "duplicate",
                 res |-> json(400, IF via = "auth"
                                   THEN "Username or email already exists."
                                   ELSE "Username already exists.")]
          [] OTHER ->
                [rows |-> rows, note |-> "error",
                 res |-> json(500, "Internal server error.")]

\* userRoutes.js login: if (!username || !password)
userRoutes_loginCheck(body) ==
    IF body.username = Undefined \/ body.password = Undefined
    THEN "Username and password are required."
    ELSE Valid

login_validate(via, body) ==
    IF via = "auth" THEN loginSchema(body) ELSE userRoutes_loginCheck(body)

\* login that tells a missing user from a wrong password
login_finish_leaky(found, password, secret, t) ==
    CASE found.err # "" ->
            [note |-> "error", res |-> json(500, "Internal server error.")]
      [] found.row = NoRow ->
            [note |-> "noUser", res |-> json(400, "User not found.")]
      [] ~bcrypt_compare(password, found.row.password) ->
            [note |-> "badPassword", res |-> json(400, "Invalid username or password.")]
      [] jwt_sign(found.row.id, secret, t).err # "" ->
            [note |-> "error", res |-> json(500, "Internal server error.")]
      [] OTHER ->
            [note |-> "loggedIn",
             res |-> [json(200, "Login successful.")
                         EXCEPT !.token = jwt_sign(found.row.id, secret, t).token]]

\* login that signs a token before it has compared the password, and sends it
\* with the refusal
login_finish_tokenOnRefusal(found, password, secret, t) ==
    CASE found.err # "" ->
            [note |-> "error", res |-> json(500, "Internal server error.")]
      [] found.row = NoRow ->
            [note |-> "noUser", res |-> json(400, "Invalid username or password.")]
      [] ~bcrypt_compare(password, found.row.password) ->
            [note |-> "badPassword",
             res |-> [json(400, "Invalid username or password.")
                         EXCEPT !.token = jwt_sign(found.row.id, secret, t).token]]
      [] jwt_sign(found.row.id, secret, t).err # "" ->
            [note |-> "error", res |-> json(500, "Internal server error.")]
      [] OTHER ->
            [note |-> "loggedIn",
             res |-> [json(200, "Login successful.")
                         EXCEPT !.token = jwt_sign(found.row.id, secret, t).token]]

\* login, from the result of User.findOne to the response
login_finish(found, password, secret, t) ==
    CASE found.err # "" ->
            [note |-> "error", res |-> json(500, "Internal server error.")]
      [] found.row = NoRow ->
            [note |-> "noUser", res |-> json(400, "Invalid username or password.")]
      [] ~bcrypt_compare(password, found.row.password) ->
            [note |-> "badPassword", res |-> json(400, "Invalid username or password.")]
      [] jwt_sign(found.row.id, secret, t).err # "" ->
            [note |-> "error", res |-> json(500, "Internal server error.")]
      [] OTHER ->
            [note |-> "loggedIn",
             res |-> [json(200, "Login successful.")
                         EXCEPT !.token = jwt_sign(found.row.id, secret, t).token]]

\* verifyToken that answers an expired token differently from an invalid one
verifyToken_byCause(authorization, secret, t) ==
    CASE authorization = NoToken ->
            [next |-> FALSE, userId |-> 0, note |-> "noToken",
             res |-> json(403, "No token provided.")]
      [] jwt_verify(authorization, secret, t).err = "TokenExpiredError" ->
            [next |-> FALSE, userId |-> 0, note |-> "badToken",
             res |-> json(401, "Token expired.")]
      [] jwt_verify(authorization, secret, t).err # "" ->
            [next |-> FALSE, userId |-> 0, note |-> "badToken",
             res |-> json(401, "Invalid token.")]
      [] OTHER ->
            [next |-> TRUE, userId |-> jwt_verify(authorization, secret, t).id,
             note |-> "", res |-> NoResponse]

\* verifyToken middleware: next is next() with req.userId set, otherwise the
\* response it sends itself
verifyToken(authorization, secret, t) ==
    CASE authorization = NoToken ->
            [next |-> FALSE, userId |-> 0, note |-> "noToken",
             res |-> json(403, "No token provided.")]
      [] jwt_verify(authorization, secret, t).err # "" ->
            [next |-> FALSE, userId |-> 0, note |-> "badToken",
             res |-> json(401, "Invalid token.")]
      [] OTHER ->
            [next |-> TRUE, userId |-> jwt_verify(authorization, secret, t).id,
             note |-> "", res |-> NoResponse]

\* the attributes the profile route selects: userRoutes.js, and its later version
profile_attributes(via) ==
    IF via = "user" THEN {"id", "username"} ELSE {"id", "username", "email"}

\* GET /profile behind verifyToken
profile(rows, via, userId) ==
    LET found == User_findByPk(rows, userId, profile_attributes(via))
    IN  CASE found.err # "" ->
                [note |-> "error", res |-> json(500, "Internal server error.")]
          [] found.row = NoRow ->
                [note |-> "notFound", res |-> json(404, "User not found.")]
          [] OTHER ->
                [note |-> "profile",
                 res |-> [json(200, "Welcome to your profile!")
                             EXCEPT !.user = toJSON(found.row, profile_attributes(via))]]

\* the mail sendResetMail(email, subject, username, resetLink) hands over
NoMail == [to |-> "", username |-> "", link |-> NoToken]

\* resetPasswordRequest that returns the reset token in its response as well
resetPasswordRequest_finish_tokenInResponse(found, body, secret, t) ==
    LET signed == jwt_sign(found.row.id, secret, t)
    IN  CASE found.err # "" ->
                [note |-> "error", mail |-> NoMail,
                 res |-> json(500, "Internal server error.")]
          [] found.row = NoRow ->
                [note |-> "emailNotFound", mail |-> NoMail,
                 res |-> json(404, "Email not found.")]
          [] signed.err # "" ->
                [note |-> "error", mail |-> NoMail,
                 res |-> json(500, "Internal server error.")]
          [] OTHER ->
                [note |-> "mailed",
                 mail |-> [to |-> body.email, username |-> found.row.username,
                           link |-> signed.token],
                 res |-> [json(200, "Reset link sent successfully.")
                             EXCEPT !.token = signed.token]]

\* resetPasswordRequest, from the result of User.findOne to the response
resetPasswordRequest_finish(found, body, secret, t) ==
    LET signed == jwt_sign(found.row.id, secret, t)
    IN  CASE found.err # "" ->
                [note |-> "error", mail |-> NoMail,
                 res |-> json(500, "Internal server error.")]
          [] found.row = NoRow ->
                [note |-> "emailNotFound", mail |-> NoMail,
                 res |-> json(404, "Email not found.")]
          [] signed.err # "" ->
                [note |-> "error", mail |-> NoMail,
                 res |-> json(500, "Internal server error.")]
          [] OTHER ->
                [note |-> "mailed",
                 mail |-> [to |-> body.email, username |-> found.row.username,
                           link |-> signed.token],
                 res |-> json(200, "Reset link sent successfully.")]

\* resetPasswordRequest, from validation to the response
resetPasswordRequest(rows, body, secret, t) ==
    IF resetPasswordSchema(body) # Valid
    THEN [note |-> "validation", mail |-> NoMail,
          res |-> json(400, resetPasswordSchema(body))]
    ELSE resetPasswordRequest_finish(User_findOne(rows, "email", body.email),
                                     body, secret, t)

\* newPasswordSchema.validate
newPasswordSchema(body) ==
    CASE body.token = NoToken -> "Token is required."
      [] body.newPassword = Undefined -> "New password is required."
      [] Len(Spell(body.newPassword)) < PasswordMin ->
            "New password must be at least 8 characters long."
      [] ~passwordPattern(body.newPassword) ->
            "New password must include at least one uppercase letter, one lowercase letter, one number, and one special character."
      [] OTHER -> Valid

\* resetPassword, from validation to the point where user.update is issued:
\* go is whether the handler goes on to the update of row user
resetPassword_start(rows, body, secret, t) ==
    LET decoded == jwt_verify(body.token, secret, t)
        found == User_findByPk(rows, decoded.id, Columns)
    IN  CASE newPasswordSchema(body) # Valid ->
                [go |-> FALSE, user |-> NoRow, note |-> "validation",
                 res |-> json(400, newPasswordSchema(body))]
          [] decoded.err = "TokenExpiredError" ->
                [go |-> FALSE, user |-> NoRow, note |-> "expired",
                 res |-> json(400, "Token expired.")]
          [] decoded.err # "" ->
                [go |-> FALSE, user |-> NoRow, note |-> "verifyFailed",
                 res |-> json(500, "Internal server error.")]
          [] found.err # "" ->
                [go |-> FALSE, user |-> NoRow, note |-> "error",
                 res |-> json(500, "Internal server error.")]
          [] found.row = NoRow ->
                [go |-> FALSE, user |-> NoRow, note |-> "noUser",
                 res |-> json(400, "Invalid token.")]
          [] OTHER ->
                [go |-> TRUE, user |-> found.row, note |-> "", res |-> NoResponse]

\* resetPassword whose update is conditional on the record still being the one
\* that was read: UPDATE ... WHERE id = user.id AND password = user.password
resetPassword_update_ifUnchanged(rows, user, hashedPassword) ==
    [rows |-> IF user \in rows THEN User_update(rows, user.id, hashedPassword) ELSE rows,
     note |-> "reset",
     res |-> json(200, "Password reset successfully.")]

\* resetPassword, from user.update to the response
resetPassword_update(rows, user, hashedPassword) ==
    [rows |-> User_update(rows, user.id, hashedPassword), note |-> "reset",
     res |-> json(200, "Password reset successfully.")]

(***************************************************************************)
(* State.                                                                  *)
(***************************************************************************)
VARIABLES
    users,        \* the rows of the User table
    now,          \* the clock, Math.floor(Date.now() / 1000)
    jwtSecret,    \* process.env.JWT_SECRET
    inflight,     \* the requests suspended at an await, by slot
    tokens,       \* every token jwt.sign has produced so far
    mails,        \* every mail handed to sendResetMail so far
    last,         \* the request answered last, with its response
    emailGiven,   \* history: the email passed to User.create for row id i
    tally,        \* history: per username, the register requests that passed
                  \* validation and were answered, those answered 201 (created)
                  \* and those answered with the duplicate 400
    accepted,     \* the number of requests accepted so far
    resetLog,     \* history: the reset-confirms answered 200 in the order of
                  \* their updates, each with its token, its new password and
                  \* whether the token had been used before the request was
                  \* accepted
    run           \* one handler followed call by call: where it stands, the
                  \* responses it has sent, the exception in the air

vars == <<users, now, jwtSecret, inflight, tokens, mails, last, emailGiven,
          tally, accepted, resetLog, run>>

Slots == 1..MaxInFlight

\* no handler is being followed
NoRun == [h |-> "", k |-> 0, err |-> "", threw |-> "", sent |-> <<>>,
          calls |-> <<>>, escaped |-> FALSE, done |-> TRUE]

\* the instants the clock is read at: around every multiple of the token lifetime
Instants == {t \in 0..MaxNow : t % ExpiresIn \in {0, ExpiresIn - 1}}

NoBody == [username |-> Undefined, password |-> Undefined, email |-> Undefined,
           token |-> NoToken, newPassword |-> Undefined]

\* replay (history): the token of the request had already been used in a
\* successful reset-confirm when the request was accepted
Idle == [ep |-> "idle", via |-> "", body |-> NoBody, hashed |-> NoHash,
         user |-> NoRow, replay |-> FALSE]

\* a token signed with a key that is not the server's
Forged == [form |-> "jwt", id |-> 1, iat |-> 0, exp |-> ExpiresIn, key |-> "forged"]

\* the tokens a client can present
Presentable == tokens \cup {Forged, Garbage}

Init ==
    /\ users = {}
    /\ now = 0
    /\ jwtSecret = "s3cret"
    /\ inflight = [i \in Slots |-> Idle]
    /\ tokens = {}
    /\ mails = {}
    /\ last = [ep |-> "none", via |-> "", body |-> NoBody, res |-> NoResponse,
               note |-> "", looked |-> FALSE]
    /\ emailGiven = <<>>
    /\ tally = [u \in Usernames |-> [answered |-> 0, created |-> 0, duplicate |-> 0]]
    /\ accepted = 0
    /\ resetLog = <<>>
    /\ run = NoRun

\* a request can be accepted
CanAccept == accepted < MaxRequests

\* the slot a request that suspends is parked in
HasFree == \E i \in Slots : inflight[i] = Idle
Free == CHOOSE i \in Slots : inflight[i] = Idle /\ \A j \in Slots : j < i => inflight[j] # Idle

\* the response to a request goes out
Answered(ep, via, body, res, note, looked) ==
    last' = [ep |-> ep, via |-> via, body |-> body, res |-> res, note |-> note,
             looked |-> looked]

(***************************************************************************)
(* POST /register: validation and bcrypt.hash, then User.create.           *)
(***************************************************************************)
\* a register request with a username of U, a password of P and an email of E
RegisterStartOf(U, P, E) ==
    /\ CanAccept /\ HasFree
    /\ \E via \in {"auth", "user"}, u \in U, p \in P, e \in E, salt \in Salts :
          LET body == [NoBody EXCEPT !.username = u, !.password = p,
                                     !.email = IF via = "auth" THEN e ELSE Undefined]
          IN  /\ via = "user" => e = CHOOSE x \in E : TRUE
              /\ IF register_validate(via, body) # Valid
                 THEN /\ Answered("register", via, body,
                                  json(400, register_validate(via, body)),
                                  "validation", FALSE)
                      /\ UNCHANGED inflight
                 ELSE /\ inflight' = [inflight EXCEPT ![Free] =
                              [Idle EXCEPT !.ep = "register", !.via = via, !.body = body,
                                           !.hashed = bcrypt_hash(p, SaltRounds, salt)]]
                      /\ UNCHANGED last
    /\ accepted' = accepted + 1
    /\ UNCHANGED <<users, now, jwtSecret, tokens, mails, emailGiven, tally, resetLog, run>>

RegisterStart == RegisterStartOf(Usernames, PasswordInputs, Emails)

RegisterCreate(i) ==
    /\ inflight[i].ep = "register"
    /\ LET q == inflight[i]
           out == register_create(users, q.via, q.body, q.hashed)
           u == q.body.username
       IN  /\ users' = out.rows
           /\ emailGiven' = IF out.note = "created"
                            THEN Append(emailGiven, q.body.email)
                            ELSE emailGiven
           /\ tally' = [tally EXCEPT
                  ![u].answered = @ + 1,
                  ![u].created = IF out.res.status = 201 THEN @ + 1 ELSE @,
                  ![u].duplicate = IF out.note = "duplicate" THEN @ + 1 ELSE @]
           /\ Answered("register", q.via, q.body, out.res, out.note, FALSE)
    /\ inflight' = [inflight EXCEPT ![i] = Idle]
    /\ UNCHANGED <<now, jwtSecret, tokens, mails, accepted, resetLog, run>>

(***************************************************************************)
(* POST /login: validation and User.findOne, then bcrypt.compare and       *)
(* jwt.sign.                                                               *)
(***************************************************************************)
\* a login request with a username of U and a password of P
LoginStartOf(U, P) ==
    /\ CanAccept /\ HasFree
    /\ \E via \in {"auth", "user"}, u \in U, p \in P :
          LET body == [NoBody EXCEPT !.username = u, !.password = p]
          IN  IF login_validate(via, body) # Valid
              THEN /\ Answered("login", via, body, json(400, login_validate(via, body)),
                               "validation", FALSE)
                   /\ UNCHANGED inflight
              ELSE /\ inflight' = [inflight EXCEPT ![Free] =
                           [Idle EXCEPT !.ep = "login", !.via = via, !.body = body,
                                        !.user = User_findOne(users, "username", u).row]]
                   /\ UNCHANGED last
    /\ accepted' = accepted + 1
    /\ UNCHANGED <<users, now, jwtSecret, tokens, mails, emailGiven, tally, resetLog, run>>

LoginStart == LoginStartOf(Usernames, PasswordInputs)

LoginFinish(i) ==
    /\ inflight[i].ep = "login"
    /\ LET q == inflight[i]
           out == login_finish([err |-> "", row |-> q.user], q.body.password,
                               jwtSecret, now)
       IN  /\ tokens' = IF out.note = "loggedIn"
                        THEN tokens \cup {out.res.token} ELSE tokens
           /\ Answered("login", q.via, q.body, out.res, out.note, FALSE)
    /\ inflight' = [inflight EXCEPT ![i] = Idle]
    /\ UNCHANGED <<users, now, jwtSecret, mails, emailGiven, tally, accepted, resetLog, run>>

(***************************************************************************)
(* GET /profile: verifyToken, then the route's User.findByPk.              *)
(***************************************************************************)
Profile ==
    /\ CanAccept
    /\ \E via \in {"user", "user2"}, tok \in Presentable \cup {NoToken} :
          LET body == [NoBody EXCEPT !.token = tok]
              mw == verifyToken(tok, jwtSecret, now)
              out == profile(users, via, mw.userId)
          IN  IF mw.next
              THEN Answered("profile", via, body, out.res, out.note, TRUE)
              ELSE Answered("profile", via, body, mw.res, mw.note, FALSE)
    /\ accepted' = accepted + 1
    /\ UNCHANGED <<users, now, jwtSecret, inflight, tokens, mails, emailGiven, tally, resetLog, run>>

(***************************************************************************)
(* POST /reset-password: the lookup by email, jwt.sign, sendResetMail.     *)
(***************************************************************************)
ResetRequest ==
    /\ CanAccept
    /\ \E e \in Emails :
          LET body == [NoBody EXCEPT !.email = e]
              out == resetPasswordRequest(users, body, jwtSecret, now)
          IN  /\ mails' = IF out.note = "mailed" THEN mails \cup {out.mail} ELSE mails
              /\ tokens' = IF out.note = "mailed"
                           THEN tokens \cup {out.mail.link} ELSE tokens
              /\ Answered("resetRequest", "auth", body, out.res, out.note,
                          out.note # "validation")
    /\ accepted' = accepted + 1
    /\ UNCHANGED <<users, now, jwtSecret, inflight, emailGiven, tally, resetLog, run>>

(***************************************************************************)
(* PATCH /reset-password: validation, jwt.verify, User.findByPk and        *)
(* bcrypt.hash, then user.update.                                          *)
(***************************************************************************)
\* a reset-confirm request with a new password of P
ResetConfirmStartOf(P) ==
    /\ CanAccept /\ HasFree
    /\ \E tok \in Presentable \cup {NoToken}, p \in P, salt \in Salts :
          LET body == [NoBody EXCEPT !.token = tok, !.newPassword = p]
              out == resetPassword_start(users, body, jwtSecret, now)
          IN  IF out.go
              THEN /\ inflight' = [inflight EXCEPT ![Free] =
                           [Idle EXCEPT !.ep = "resetConfirm", !.via = "auth",
                                        !.replay = \E k \in DOMAIN resetLog :
                                                      resetLog[k].token = tok,
                                        !.body = body, !.user = out.user,
                                        !.hashed = bcrypt_hash(p, SaltRounds, salt)]]
                   /\ UNCHANGED last
              ELSE /\ Answered("resetConfirm", "auth", body, out.res, out.note,
                               out.note \in {"error", "noUser"})
                   /\ UNCHANGED inflight
    /\ accepted' = accepted + 1
    /\ UNCHANGED <<users, now, jwtSecret, tokens, mails, emailGiven, tally, resetLog, run>>

ResetConfirmStart == ResetConfirmStartOf(PasswordInputs)

ResetConfirmUpdate(i) ==
    /\ inflight[i].ep = "resetConfirm"
    /\ LET q == inflight[i]
           out == resetPassword_update(users, q.user, q.hashed)
       IN  /\ users' = out.rows
           /\ Answered("resetConfirm", q.via, q.body, out.res, out.note, TRUE)
           /\ resetLog' = Append(resetLog, [token |-> q.body.token,
                                         replay |-> q.replay,
                                         newPassword |-> q.body.newPassword])
    /\ inflight' = [inflight EXCEPT ![i] = Idle]
    /\ UNCHANGED <<now, jwtSecret, tokens, mails, emailGiven, tally, accepted, run>>

(***************************************************************************)
(* Time passes.                                                            *)
(***************************************************************************)
Tick ==
    /\ \E t \in Instants : t > now /\ now' = t
    /\ UNCHANGED <<users, jwtSecret, inflight, tokens, mails, last, emailGiven,
                   tally, accepted, resetLog, run>>

Next ==
    \/ RegisterStart
    \/ \E i \in Slots : RegisterCreate(i)
    \/ LoginStart
    \/ \E i \in Slots : LoginFinish(i)
    \/ Profile
    \/ ResetRequest
    \/ ResetConfirmStart
    \/ \E i \in Slots : ResetConfirmUpdate(i)
    \/ Tick

Spec == Init /\ [][Next]_vars

(***************************************************************************)
(* The server started on a table that already holds one user: the row and  *)
(* the history an earlier POST /api/auth/register left behind.             *)
(***************************************************************************)
SeedBody == [NoBody EXCEPT !.username = "alice01", !.password = "Abcdef1!",
                           !.email = "a@x.com"]

Seeded == register_create({}, "auth", SeedBody,
                          bcrypt_hash(SeedBody.password, SaltRounds, 1))

InitSeeded ==
    /\ users = Seeded.rows
    /\ now = 0
    /\ jwtSecret = "s3cret"
    /\ inflight = [i \in Slots |-> Idle]
    /\ tokens = {}
    /\ mails = {}
    /\ last = [ep |-> "none", via |-> "", body |-> NoBody, res |-> NoResponse,
               note |-> "", looked |-> FALSE]
    /\ emailGiven = <<SeedBody.email>>
    /\ tally = [u \in Usernames |->
                  IF u = SeedBody.username
                  THEN [answered |-> 1, created |-> 1, duplicate |-> 0]
                  ELSE [answered |-> 0, created |-> 0, duplicate |-> 0]]
    /\ accepted = 0
    /\ resetLog = <<>>
    /\ run = NoRun

SpecSeeded == InitSeeded /\ [][Next]_vars

(***************************************************************************)
(* The server under requests that carry inputs the registration rules      *)
(* reject: a username of three characters, a password of five lower-case   *)
(* letters.                                                                *)
(***************************************************************************)
ShortUsernames == {"alice01", "bob"}
WeakPasswordInputs == {"Abcdef1!", "wrong", Undefined}

InitWeak ==
    /\ users = {}
    /\ now = 0
    /\ jwtSecret = "s3cret"
    /\ inflight = [i \in Slots |-> Idle]
    /\ tokens = {}
    /\ mails = {}
    /\ last = [ep |-> "none", via |-> "", body |-> NoBody, res |-> NoResponse,
               note |-> "", looked |-> FALSE]
    /\ emailGiven = <<>>
    /\ tally = [u \in ShortUsernames |-> [answered |-> 0, created |-> 0, duplicate |-> 0]]
    /\ accepted = 0
    /\ resetLog = <<>>
    /\ run = NoRun

RegisterStartWeak == RegisterStartOf(ShortUsernames, WeakPasswordInputs, Emails)
LoginStartWeak == LoginStartOf(ShortUsernames, WeakPasswordInputs)
ResetConfirmStartWeak == ResetConfirmStartOf(WeakPasswordInputs)

NextWeak ==
    \/ RegisterStartWeak
    \/ \E i \in Slots : RegisterCreate(i)
    \/ LoginStartWeak
    \/ \E i \in Slots : LoginFinish(i)
    \/ Profile
    \/ ResetRequest
    \/ ResetConfirmStartWeak
    \/ \E i \in Slots : ResetConfirmUpdate(i)
    \/ Tick

SpecWeak == InitWeak /\ [][NextWeak]_vars

(***************************************************************************)
(* The server with a token in circulation whose user is gone: the token    *)
(* was signed by a login at instant 0, and the row it names is no longer   *)
(* in the table (the table lives in the database, outside the handlers,    *)
(* and no handler deletes a row).                                          *)
(***************************************************************************)
\* an id no User.create of the behaviour assigns
OrphanId == Cardinality(Usernames) + 1

InitOrphan ==
    /\ users = {}
    /\ now = 0
    /\ jwtSecret = "s3cret"
    /\ inflight = [i \in Slots |-> Idle]
    /\ tokens = {jwt_sign(OrphanId, "s3cret", 0).token}
    /\ mails = {}
    /\ last = [ep |-> "none", via |-> "", body |-> NoBody, res |-> NoResponse,
               note |-> "", looked |-> FALSE]
    /\ emailGiven = <<>>
    /\ tally = [u \in Usernames |-> [answered |-> 0, created |-> 0, duplicate |-> 0]]
    /\ accepted = 0
    /\ resetLog = <<>>
    /\ run = NoRun

SpecOrphan == InitOrphan /\ [][Next]_vars

(***************************************************************************)
(* The server started on whatever dotenv.config() read: JWT_SECRET set, or *)
(* left out (the line JWT_SECRET= of .env.example).  app.listen is reached *)
(* in both cases.                                                          *)
(***************************************************************************)
Configurations == {"s3cret", Undefined}

InitAnyConfig ==
    /\ users = {}
    /\ now = 0
    /\ jwtSecret \in Configurations
    /\ inflight = [i \in Slots |-> Idle]
    /\ tokens = {}
    /\ mails = {}
    /\ last = [ep |-> "none", via |-> "", body |-> NoBody, res |-> NoResponse,
               note |-> "", looked |-> FALSE]
    /\ emailGiven = <<>>
    /\ tally = [u \in Usernames |-> [answered |-> 0, created |-> 0, duplicate |-> 0]]
    /\ accepted = 0
    /\ resetLog = <<>>
    /\ run = NoRun

SpecAnyConfig == InitAnyConfig /\ [][Next]_vars

(***************************************************************************)
(* The handlers of routes/auth/*.js, each written out from its own file as *)
(* one function of the request and of the table, and beside them the       *)
(* handlers of authRoutes.js as the actions above run them.  A handler     *)
(* yields its response, the table it leaves and the mail it hands over.    *)
(***************************************************************************)
Yields(res, rows, mail) == [res |-> res, rows |-> rows, mail |-> mail]

InternalError == json(500, "Internal server error.")

\* exports.register
exports_register(rows, body, salt) ==
    LET error == registerSchema(body)
    IN
    IF error # Valid
    THEN Yields(json(400, error), rows, NoMail)
    ELSE LET hashedPassword == bcrypt_hash(body.password, SaltRounds, salt)
             newUser == User_create(rows, [username |-> body.username,
                                           password |-> hashedPassword,
                                           email |-> body.email])
         IN  CASE newUser.err = "" ->
                     Yields([json(201, "User registered successfully.")
                                EXCEPT !.userId = newUser.row.id], newUser.rows, NoMail)
               [] newUser.err = "SequelizeUniqueConstraintError" ->
                     Yields(json(400, "Username or email already exists."), rows, NoMail)
               [] OTHER -> Yields(InternalError, rows, NoMail)

\* router.post("/register") of authRoutes.js
router_register(rows, body, salt) ==
    LET error == register_validate("auth", body)
    IN
    IF error # Valid
    THEN Yields(json(400, error), rows, NoMail)
    ELSE LET out == register_create(rows, "auth", body,
                                    bcrypt_hash(body.password, SaltRounds, salt))
         IN  Yields(out.res, out.rows, NoMail)

\* exports.login without the loginSchema.validate at its head
exports_login_unvalidated(rows, body, secret, t) ==
    LET user == User_findOne(rows, "username", body.username)
        token == jwt_sign(user.row.id, secret, t)
    IN  CASE user.err # "" -> Yields(InternalError, rows, NoMail)
          [] user.row = NoRow ->
                Yields(json(400, "Invalid username or password."), rows, NoMail)
          [] ~bcrypt_compare(body.password, user.row.password) ->
                Yields(json(400, "Invalid username or password."), rows, NoMail)
          [] token.err # "" -> Yields(InternalError, rows, NoMail)
          [] OTHER ->
                Yields([json(200, "Login successful.") EXCEPT !.token = token.token],
                       rows, NoMail)

\* exports.login
exports_login(rows, body, secret, t) ==
    LET user == User_findOne(rows, "username", body.username)
        token == jwt_sign(user.row.id, secret, t)
    IN  CASE loginSchema(body) # Valid ->
                Yields(json(400, loginSchema(body)), rows, NoMail)
          [] user.err # "" -> Yields(InternalError, rows, NoMail)
          [] user.row = NoRow ->
                Yields(json(400, "Invalid username or password."), rows, NoMail)
          [] ~bcrypt_compare(body.password, user.row.password) ->
                Yields(json(400, "Invalid username or password."), rows, NoMail)
          [] token.err # "" -> Yields(InternalError, rows, NoMail)
          [] OTHER ->
                Yields([json(200, "Login successful.") EXCEPT !.token = token.token],
                       rows, NoMail)

\* router.post("/login") of authRoutes.js
router_login(rows, body, secret, t) ==
    IF login_validate("auth", body) # Valid
    THEN Yields(json(400, login_validate("auth", body)), rows, NoMail)
    ELSE Yields(login_finish([err |-> "",
                              row |-> User_findOne(rows, "username", body.username).row],
                             body.password, secret, t).res,
                rows, NoMail)

\* exports.resetPasswordRequest
exports_resetPasswordRequest(rows, body, secret, t) ==
    LET user == User_findOne(rows, "email", body.email)
        resetToken == jwt_sign(user.row.id, secret, t)
    IN  CASE resetPasswordSchema(body) # Valid ->
                Yields(json(400, resetPasswordSchema(body)), rows, NoMail)
          [] user.err # "" -> Yields(InternalError, rows, NoMail)
          [] user.row = NoRow -> Yields(json(404, "Email not found."), rows, NoMail)
          [] resetToken.err # "" -> Yields(InternalError, rows, NoMail)
          [] OTHER ->
                Yields(json(200, "Reset link sent successfully."), rows,
                       [to |-> body.email, username |-> user.row.username,
                        link |-> resetToken.token])

\* router.post("/reset-password") of authRoutes.js
router_resetPasswordRequest(rows, body, secret, t) ==
    LET out == resetPasswordRequest(rows, body, secret, t)
    IN  Yields(out.res, rows, out.mail)

\* exports.resetPassword
exports_resetPassword(rows, body, secret, t, salt) ==
    LET decoded == jwt_verify(body.token, secret, t)
        user == User_findByPk(rows, decoded.id, Columns)
        hashedPassword == bcrypt_hash(body.newPassword, SaltRounds, salt)
    IN  CASE newPasswordSchema(body) # Valid ->
                Yields(json(400, newPasswordSchema(body)), rows, NoMail)
          [] decoded.err = "TokenExpiredError" ->
                Yields(json(400, "Token expired."), rows, NoMail)
          [] decoded.err # "" -> Yields(InternalError, rows, NoMail)
          [] user.err # "" -> Yields(InternalError, rows, NoMail)
          [] user.row = NoRow -> Yields(json(400, "Invalid token."), rows, NoMail)
          [] OTHER ->
                Yields(json(200, "Password reset successfully."),
                       User_update(rows, user.row.id, hashedPassword), NoMail)

\* router.patch("/reset-password") of authRoutes.js
router_resetPassword(rows, body, secret, t, salt) ==
    LET out == resetPassword_start(rows, body, secret, t)
        upd == resetPassword_update(rows, out.user,
                                    bcrypt_hash(body.newPassword, SaltRounds, salt))
    IN  IF out.go THEN Yields(upd.res, upd.rows, NoMail)
                  ELSE Yields(out.res, rows, NoMail)

(***************************************************************************)
(* One handler followed call by call, for every outcome of the calls it    *)
(* makes: a call returns, returns nothing (null, false) or throws; what    *)
(* the handler does next is its code around the call.                      *)
(***************************************************************************)
\* the handlers: the routes of authRoutes.js, the exported handlers of
\* routes/auth/*.js, the routes of userRoutes.js
RegisterHandlers == {"auth.register", "file.register", "user.register"}
LoginHandlers == {"auth.login", "file.login", "user.login"}
ResetRequestHandlers == {"auth.resetRequest", "file.resetRequest"}
ResetConfirmHandlers == {"auth.resetConfirm", "file.resetConfirm"}
ProfileHandlers == {"user.profile"}

Handlers == RegisterHandlers \cup LoginHandlers \cup ResetRequestHandlers
               \cup ResetConfirmHandlers \cup ProfileHandlers

\* the calls a handler makes, in the order of its code; res.json is the
\* response at the end of the try block
Calls(h) ==
    CASE h \in RegisterHandlers ->
            <<"validate", "bcrypt.hash", "User.create", "res.json">>
      [] h \in LoginHandlers ->
            <<"validate", "User.findOne", "bcrypt.compare", "jwt.sign", "res.json">>
      [] h \in ResetRequestHandlers ->
            <<"validate", "User.findOne", "jwt.sign", "sendResetMail", "res.json">>
      [] h \in ResetConfirmHandlers ->
            <<"validate", "jwt.verify", "User.findByPk", "bcrypt.hash", "user.update",
              "res.json">>
      [] OTHER ->
            <<"authorization", "jwt.verify(cb)", "User.findByPk", "res.json">>

\* what a call can come back with
Outcomes(call) ==
    CASE call = "validate" -> {"ok", "error"}
      [] call = "authorization" -> {"ok", "none"}
      [] call = "jwt.verify(cb)" -> {"ok", "err"}
      [] call = "jwt.verify" -> {"ok", "TokenExpiredError", "throws"}
      [] call = "User.create" -> {"ok", "SequelizeUniqueConstraintError", "throws"}
      [] call \in {"User.findOne", "User.findByPk"} -> {"ok", "null", "throws"}
      [] call = "bcrypt.compare" -> {"ok", "false", "throws"}
      [] call = "res.json" -> {"ok"}
      [] OTHER -> {"ok", "throws"}

Goes == [send |-> 0, stop |-> FALSE, throw |-> ""]
Returns(status) == [send |-> status, stop |-> TRUE, throw |-> ""]
Throws(name) == [send |-> 0, stop |-> FALSE, throw |-> name]

\* the status of the response at the end of the try block
Success(h) == IF h \in RegisterHandlers THEN 201 ELSE 200

\* a handler whose validation branch sends its 400 and lacks the return
Effect_noReturn(h, call, o) ==
    CASE o = "ok" /\ call = "res.json" -> Returns(Success(h))
      [] o = "ok" -> Goes
      [] o = "error" -> [send |-> 400, stop |-> FALSE, throw |-> ""]
      [] o = "none" -> Returns(403)
      [] o = "err" -> Returns(401)
      [] o = "null" /\ (h \in ResetRequestHandlers \/ h \in ProfileHandlers) -> Returns(404)
      [] o = "null" -> Returns(400)
      [] o = "false" -> Returns(400)
      [] o = "throws" -> Throws("Error")
      [] OTHER -> Throws(o)

\* a reset-request that goes on when sendResetMail has thrown
Effect_mailFailureIgnored(h, call, o) ==
    CASE o = "ok" /\ call = "res.json" -> Returns(Success(h))
      [] o = "ok" -> Goes
      [] o = "error" -> Returns(400)
      [] o = "none" -> Returns(403)
      [] o = "err" -> Returns(401)
      [] o = "null" /\ (h \in ResetRequestHandlers \/ h \in ProfileHandlers) -> Returns(404)
      [] o = "null" -> Returns(400)
      [] o = "false" -> Returns(400)
      [] o = "throws" /\ call = "sendResetMail" -> Goes
      [] o = "throws" -> Throws("Error")
      [] OTHER -> Throws(o)

\* what the code of handler h does when call comes back with o
Effect(h, call, o) ==
    CASE o = "ok" /\ call = "res.json" -> Returns(Success(h))
      [] o = "ok" -> Goes
      [] o = "error" -> Returns(400)
      [] o = "none" -> Returns(403)
      [] o = "err" -> Returns(401)
      [] o = "null" /\ (h \in ResetRequestHandlers \/ h \in ProfileHandlers) -> Returns(404)
      [] o = "null" -> Returns(400)
      [] o = "false" -> Returns(400)
      [] o = "throws" -> Throws("Error")
      [] OTHER -> Throws(o)

\* the call stands inside the try block of its handler
InTry(h, call) == call \notin {"validate", "authorization", "jwt.verify(cb)"}

\* the status the catch block of handler h answers error name with
Catch(h, name) ==
    CASE h \in RegisterHandlers /\ name = "SequelizeUniqueConstraintError" -> 400
      [] h \in ResetConfirmHandlers /\ name = "TokenExpiredError" -> 400
      [] OTHER -> 500

\* a request reaches a handler
Arrive ==
    /\ run.done
    /\ \E h \in Handlers : run' = [NoRun EXCEPT !.h = h, !.k = 1, !.done = FALSE]
    /\ UNCHANGED <<users, now, jwtSecret, inflight, tokens, mails, last, emailGiven,
                   tally, accepted, resetLog>>

\* the next call of the handler comes back
Call ==
    /\ ~run.done /\ run.err = ""
    /\ LET c == Calls(run.h)[run.k]
       IN  \E o \in Outcomes(c) :
              LET e == Effect(run.h, c, o)
              IN  run' = [run EXCEPT
                     !.calls = Append(@, [call |-> c, came |-> o]),
                     !.sent = IF e.send # 0 THEN Append(@, e.send) ELSE @,
                     !.err = e.throw,
                     !.threw = IF e.throw # "" THEN c ELSE @,
                     !.k = @ + 1,
                     !.done = e.stop \/ (e.throw = "" /\ run.k = Len(Calls(run.h)))]
    /\ UNCHANGED <<users, now, jwtSecret, inflight, tokens, mails, last, emailGiven,
                   tally, accepted, resetLog>>

\* the exception in the air reaches the catch block, or leaves the handler
Caught ==
    /\ ~run.done /\ run.err # ""
    /\ run' = IF InTry(run.h, run.threw)
              THEN [run EXCEPT !.sent = Append(@, Catch(run.h, run.err)),
                               !.done = TRUE]
              ELSE [run EXCEPT !.escaped = TRUE, !.done = TRUE]
    /\ UNCHANGED <<users, now, jwtSecret, inflight, tokens, mails, last, emailGiven,
                   tally, accepted, resetLog>>

NextCalls == Arrive \/ Call \/ Caught

SpecCalls == Init /\ [][NextCalls]_vars

(***************************************************************************)
(* Properties.                                                             *)
(***************************************************************************)
RowsNamed(u) == {r \in users : r.username = u}

DuplicateUser(res) ==
    /\ res.status = 400
    /\ res.message \in {"Username or email already exists.", "Username already exists."}
    /\ res.userId = 0

\* C1: of the register requests that carry one username and pass validation,
\* in whatever order their hashing and their User.create interleave, exactly
\* one is answered 201 with a user id and every other one is answered with the
\* duplicate-user 400; the table then holds exactly one row with that username.
C1_ExactlyOneRegistration ==
    /\ \A u \in Usernames :
          tally[u].answered >= 1 =>
             /\ tally[u].created = 1
             /\ tally[u].duplicate = tally[u].answered - 1
             /\ Cardinality(RowsNamed(u)) = 1
    /\ (last.ep = "register" /\ last.note = "created") =>
          /\ last.res.status = 201
          /\ \E r \in users : r.id = last.res.userId /\ r.username = last.body.username
    /\ (last.ep = "register" /\ last.note = "duplicate") => DuplicateUser(last.res)

\* three register requests for one username were answered, two of them with
\* the duplicate-user response
C1_Witness ==
    \E u \in Usernames :
       /\ tally[u].answered = 3
       /\ tally[u].duplicate = 2
       /\ last.ep = "register" /\ DuplicateUser(last.res)

\* C2: no two rows of the table share a username, and no two rows were
\* created with the same email.
C2_UniqueUsernameAndEmail ==
    \A r1, r2 \in users :
       r1.id # r2.id =>
          /\ r1.username # r2.username
          /\ emailGiven[r1.id] # Undefined => emailGiven[r1.id] # emailGiven[r2.id]

InvalidCredentials == json(400, "Invalid username or password.")

\* C3: a login for a username that has no row and a login for an existing
\* username with a wrong password are answered with one and the same response:
\* status 400, the same message, no token.
C3_LoginFailuresAlike ==
    (last.ep = "login" /\ last.note \in {"noUser", "badPassword"}) =>
       /\ last.res = InvalidCredentials
       /\ last.res.token = NoToken

\* a login for an existing username with a password that is not the stored one
C3_Witness ==
    /\ last.ep = "login"
    /\ last.note = "badPassword"
    /\ \E r \in users :
          /\ r.username = last.body.username
          /\ r.password.pre # last.body.password
    /\ last.res = InvalidCredentials

\* the instants a token is probed at: those of the clock and those around its
\* expiry
ProbeTimes(tok) == Instants \cup {tok.iat, tok.exp - 1, tok.exp, tok.exp + 1}

\* the request answered last carried a token the server signed
LastTokenSigned == last.body.token \in tokens

\* the request answered last passed jwt.verify
LastVerified ==
    \/ last.ep = "profile" /\ last.looked
    \/ last.ep = "resetConfirm" /\ last.note \in {"reset", "noUser", "error"}

\* C4: every token issued expires one hour after it was issued and carries the
\* id of the user it was issued for; verified before its expiry it decodes to
\* that id, verified at its expiry or later it fails with TokenExpiredError.
C4_TokenLifetime ==
    /\ \A tok \in tokens :
          /\ tok.exp = tok.iat + 3600
          /\ \E r \in users : r.id = tok.id
          /\ \A t \in ProbeTimes(tok) :
                /\ t < tok.exp =>
                      jwt_verify(tok, jwtSecret, t) = [err |-> "", why |-> "", id |-> tok.id]
                /\ t >= tok.exp =>
                      jwt_verify(tok, jwtSecret, t).err = "TokenExpiredError"
    /\ (last.ep = "login" /\ last.note = "loggedIn") =>
          /\ last.res.token \in tokens
          /\ \E r \in users : r.username = last.body.username /\ r.id = last.res.token.id
    /\ \A m \in mails :
          /\ m.link \in tokens
          /\ \E r \in users : r.username = m.username /\ r.id = m.link.id
    /\ (last.ep \in {"profile", "resetConfirm"} /\ LastTokenSigned
          /\ last.note # "validation") =>
          /\ now < last.body.token.exp => LastVerified
          /\ ~LastVerified =>
                /\ now >= last.body.token.exp
                /\ last.ep = "resetConfirm" => last.note = "expired"

\* a token the server signed was presented at the very instant of its expiry
\* and refused as expired
C4_Witness ==
    /\ last.ep = "resetConfirm"
    /\ LastTokenSigned
    /\ now = last.body.token.exp
    /\ last.note = "expired"

TokenExpired == json(400, "Token expired.")

\* the step accepts a reset-confirm request with body b
ResetConfirmAccepted(b) ==
    /\ accepted' = accepted + 1
    /\ \/ inflight' = inflight /\ last'.ep = "resetConfirm" /\ last'.body = b
       \/ \E i \in Slots :
             /\ inflight[i] = Idle
             /\ inflight'[i].ep = "resetConfirm"
             /\ inflight'[i].body = b

\* token tok carries the server's signature and is past its expiry at t
SignedAndExpired(tok, t) == tok.form = "jwt" /\ tok.key = jwtSecret /\ t >= tok.exp

\* C5: a reset-confirm request that passes validation and whose token is
\* expired when it is verified is answered 400 "Token expired." at once, and
\* no row of the table changes.
C5_ExpiredResetChangesNothing ==
    [][\A tok \in Presentable, p \in Passwords :
          LET b == [NoBody EXCEPT !.token = tok, !.newPassword = p]
          IN  (ResetConfirmAccepted(b) /\ SignedAndExpired(tok, now)) =>
                 /\ inflight' = inflight
                 /\ last'.res = TokenExpired
                 /\ users' = users]_vars

\* a reset-confirm with a token the server signed was refused as expired while
\* the table holds the row the token names
C5_Witness ==
    /\ last.ep = "resetConfirm"
    /\ last.res = TokenExpired
    /\ SignedAndExpired(last.body.token, now)
    /\ \E r \in users : r.id = last.body.token.id

\* C6: a reset-confirm whose token fails verification for another reason than
\* expiry (bad signature, malformed) is answered 400 "Invalid token.", and no
\* row changes.
C6_BadTokenIsInvalidToken ==
    [][\A tok \in Presentable, p \in Passwords :
          LET b == [NoBody EXCEPT !.token = tok, !.newPassword = p]
          IN  (/\ ResetConfirmAccepted(b)
               /\ tok.form # "jwt" \/ tok.key # jwtSecret) =>
                 /\ inflight' = inflight
                 /\ last'.res = json(400, "Invalid token.")
                 /\ users' = users]_vars

\* the step answers a profile request
ProfileAnswered ==
    /\ accepted' = accepted + 1
    /\ inflight' = inflight
    /\ last'.ep = "profile"

\* token tok fails jwt.verify at t
FailsVerification(tok, t) ==
    tok.form # "jwt" \/ tok.key # jwtSecret \/ t >= tok.exp

\* C7 as stated: a token that fails verification does not reach the lookup,
\* and an expired token is answered differently from a token with a bad
\* signature.
C7_FailuresToldApart ==
    (last.ep = "profile" /\ last.body.token # NoToken /\ ~last.looked) =>
       (LastTokenSigned => last.res # verifyToken(Forged, jwtSecret, now).res)

\* C7, amended: in profile retrieval a token that fails verification, whether
\* expired, wrongly signed or malformed, never reaches the user lookup and is
\* answered with one and the same response, 401 "Invalid token.".
C7_FailuresAnsweredAlike ==
    [][(/\ ProfileAnswered
        /\ last'.body.token # NoToken
        /\ FailsVerification(last'.body.token, now)) =>
          /\ ~last'.looked
          /\ last'.res = json(401, "Invalid token.")]_vars

\* a profile request with an expired token the server signed was refused
\* before the lookup
C7_Witness ==
    /\ last.ep = "profile"
    /\ LastTokenSigned
    /\ now >= last.body.token.exp
    /\ ~last.looked
    /\ last.res.status = 401

\* C8: the password of every row is a bcrypt hash of cost 10 of some password,
\* never a password itself; when a registration has just been answered 201,
\* the password it carried verifies against the password of the row it made.
C8_PasswordsAreHashes ==
    /\ \A r \in users :
          /\ r.password.kind = "bcrypt"
          /\ r.password.cost = 10
          /\ r.password.pre \in Passwords
    /\ (last.ep = "register" /\ last.res.status = 201) =>
          \E r \in users :
             /\ r.id = last.res.userId
             /\ bcrypt_compare(last.body.password, r.password)

\* a registration was answered 201 and its password verifies against the row
C8_Witness ==
    /\ last.ep = "register"
    /\ last.res.status = 201
    /\ \E r \in users :
          /\ r.id = last.res.userId
          /\ r.password.kind = "bcrypt"
          /\ bcrypt_compare(last.body.password, r.password)

\* C9: a profile request answered 200 returns the id, the username and the
\* email of the row the token names, and no response carries a password hash.
C9_ProfileProjection ==
    /\ (last.ep = "profile" /\ last.res.status = 200) =>
          \E r \in users :
             /\ r.id = last.body.token.id
             /\ last.res.user.id = r.id
             /\ last.res.user.username = r.username
             /\ last.res.user.email = emailGiven[r.id]
    /\ last.res.user.password = NoHash

\* C10: a reset-request whose well-formed email is the email of no row is
\* answered 404 "Email not found.", and no mail goes out for it.
C10_UnknownEmailNotFound ==
    (/\ last.ep = "resetRequest"
     /\ last.note # "validation"
     /\ \A i \in DOMAIN emailGiven : emailGiven[i] # last.body.email) =>
       /\ last.res = json(404, "Email not found.")
       /\ \A m \in mails : m.to # last.body.email

\* the state the seeded server starts from is one a registration leads to
SeedReached ==
    /\ users = Seeded.rows
    /\ emailGiven = <<SeedBody.email>>
    /\ tally[SeedBody.username] = [answered |-> 1, created |-> 1, duplicate |-> 0]

\* token tok was used in a reset-confirm that was answered 200
InLog(tok) == \E k \in DOMAIN resetLog : resetLog[k].token = tok

ResetDone == json(200, "Password reset successfully.")

\* C11: a reset-confirm that carries a token already used in a successful
\* reset-confirm, with a valid new password and before the token expires, is
\* not refused: it goes on to its update, and every update of a reset-confirm
\* is answered 200 and leaves the hash of the new password in the row of the
\* token's subject.
C11_ResetTokenReplays ==
    [][/\ \A tok \in tokens, p \in Passwords :
             LET b == [NoBody EXCEPT !.token = tok, !.newPassword = p]
             IN  (ResetConfirmAccepted(b) /\ InLog(tok) /\ now < tok.exp) =>
                    \E i \in Slots :
                       /\ inflight[i] = Idle
                       /\ inflight'[i].ep = "resetConfirm"
                       /\ inflight'[i].body = b
                       /\ inflight'[i].user.id = tok.id
                       /\ bcrypt_compare(p, inflight'[i].hashed)
       /\ \A i \in Slots :
             (inflight[i].ep = "resetConfirm" /\ inflight'[i] = Idle) =>
                /\ last'.res = ResetDone
                /\ last'.body = inflight[i].body
                /\ Len(resetLog') = Len(resetLog) + 1
                /\ resetLog'[Len(resetLog')].token = inflight[i].body.token
                /\ \E r \in users' :
                      /\ r.id = inflight[i].body.token.id
                      /\ bcrypt_compare(inflight[i].body.newPassword, r.password)]_vars

\* one token was used in two reset-confirms that were both answered 200, the
\* second one accepted after the first was answered and carrying another
\* password than the one the table started with
C11_Witness ==
    /\ Len(resetLog) = 2
    /\ resetLog[1].token = resetLog[2].token
    /\ resetLog[2].replay
    /\ last.ep = "resetConfirm"
    /\ last.res = ResetDone
    /\ last.body.token = resetLog[2].token
    /\ \E r \in users :
          /\ r.id = last.body.token.id
          /\ r.password.pre = last.body.newPassword
          /\ r.password.pre = "Qwerty9#"

\* email e was given at the registration of some row
KnownEmail(e) == e # Undefined /\ \E k \in DOMAIN emailGiven : emailGiven[k] = e

\* the first half of C12 on its own: an unexpired token that login returned is
\* not refused by reset-confirm, which goes on to update the token's subject
LoginTokenResetsPassword ==
    [][\A tok \in tokens, p \in Passwords :
          LET b == [NoBody EXCEPT !.token = tok, !.newPassword = p]
          IN  (ResetConfirmAccepted(b) /\ now < tok.exp) =>
                 \E i \in Slots :
                    /\ inflight[i] = Idle
                    /\ inflight'[i].ep = "resetConfirm"
                    /\ inflight'[i].user.id = tok.id
                    /\ bcrypt_compare(p, inflight'[i].hashed)]_vars

C13_NoRevocation ==
    /\ \A tok \in tokens :
          \A t \in ProbeTimes(tok) :
             (tok.iat <= t /\ t < tok.exp) =>
                /\ verifyToken(tok, jwtSecret, t).next
                /\ verifyToken(tok, jwtSecret, t).userId = tok.id
    /\ (last.ep = "profile" /\ LastTokenSigned /\ now < last.body.token.exp) =>
          /\ last.looked
          /\ last.via = "user" =>
                /\ last.res.status = 200
                /\ last.res.user.id = last.body.token.id

\* a profile request was answered 200 on a token that had before been used to
\* reset the password of its user to another password
C13_Witness ==
    /\ last.ep = "profile"
    /\ last.res.status = 200
    /\ InLog(last.body.token)
    /\ \E r \in users :
          /\ r.id = last.body.token.id
          /\ r.id = last.res.user.id
          /\ r.password.pre # SeedBody.password

\* the rows that were in the table before the register request answered last
RowsBeforeLast == {r \in users : r.id # last.res.userId}

\* the register request answered last carried the username of a row that was
\* already there, or the email one was registered with
ConflictsOnUsername == \E r \in RowsBeforeLast : r.username = last.body.username
ConflictsOnEmail ==
    /\ last.body.email # Undefined
    /\ \E r \in RowsBeforeLast : emailGiven[r.id] = last.body.email

\* C14: a register request that passes validation and carries the username or
\* the email of an existing record is answered with the duplicate-user 400,
\* the same whichever of the two conflicted, and creates no record.
C14_ConflictIsDuplicateUser ==
    (/\ last.ep = "register"
     /\ last.note # "validation"
     /\ ConflictsOnUsername \/ ConflictsOnEmail) =>
       /\ DuplicateUser(last.res)
       /\ last.via = "auth" => last.res = json(400, "Username or email already exists.")
       /\ RowsBeforeLast = users

\* the username half of C14 on its own
UsernameConflictIsDuplicateUser ==
    (last.ep = "register" /\ last.note # "validation" /\ ConflictsOnUsername) =>
       /\ DuplicateUser(last.res)
       /\ last.via = "auth" => last.res = json(400, "Username or email already exists.")
       /\ RowsBeforeLast = users

\* the body a row was registered with, as far as the state keeps it
BodyOf(r) == [NoBody EXCEPT !.username = r.username, !.password = r.password.pre,
                            !.email = emailGiven[r.id]]

\* the registration rules on the username and the password alone
UsernamePasswordRules(body) == registerSchema([body EXCEPT !.email = "a@x.com"])

\* C15: a register request whose username or password fails the registration
\* rules (username alphanumeric of 5 to 30 characters, strong password), or
\* whose email on /api/auth/register is not well-formed, is answered 400 as a
\* validation error and nothing is stored for it, and so is a login,
\* reset-request or reset-confirm that fails the rules of its flow; every row
\* of the table was created from a username and a password that pass the
\* registration rules, and from a well-formed email if from any.
C15_ValidatedBeforeAnything ==
    /\ \A r \in users :
          /\ UsernamePasswordRules(BodyOf(r)) = Valid
          /\ emailGiven[r.id] # Undefined => isEmail(emailGiven[r.id])
    /\ (/\ last.ep = "register"
        /\ \/ UsernamePasswordRules(last.body) # Valid
           \/ last.via = "auth" /\ registerSchema(last.body) # Valid) =>
          /\ last.res.status = 400
          /\ last.note = "validation"
    /\ (last.ep = "login" /\ loginSchema(last.body) # Valid) =>
          /\ last.res.status = 400
          /\ last.note = "validation"
    /\ (last.ep = "resetRequest" /\ resetPasswordSchema(last.body) # Valid) =>
          /\ last.res = json(400, resetPasswordSchema(last.body))
          /\ ~last.looked
    /\ (last.ep = "resetConfirm" /\ newPasswordSchema(last.body) # Valid) =>
          /\ last.res = json(400, newPasswordSchema(last.body))
          /\ ~last.looked

\* C15 on the routes of /api/auth alone
AuthRoutesValidateFirst ==
    /\ \A i \in Slots :
          (inflight[i].via = "auth" /\ inflight[i].ep = "register") =>
             registerSchema(inflight[i].body) = Valid
    /\ \A i \in Slots :
          (inflight[i].via = "auth" /\ inflight[i].ep = "login") =>
             loginSchema(inflight[i].body) = Valid
    /\ \A i \in Slots :
          inflight[i].ep = "resetConfirm" => newPasswordSchema(inflight[i].body) = Valid
    /\ (last.via = "auth" /\ last.ep = "register" /\ registerSchema(last.body) # Valid) =>
          /\ last.res = json(400, registerSchema(last.body))
          /\ last.note = "validation"
    /\ (last.via = "auth" /\ last.ep = "login" /\ loginSchema(last.body) # Valid) =>
          /\ last.res = json(400, loginSchema(last.body))
          /\ last.note = "validation"
    /\ (last.ep = "resetRequest" /\ resetPasswordSchema(last.body) # Valid) =>
          /\ last.res = json(400, resetPasswordSchema(last.body))
          /\ ~last.looked
    /\ (last.ep = "resetConfirm" /\ newPasswordSchema(last.body) # Valid) =>
          /\ last.res = json(400, newPasswordSchema(last.body))
          /\ ~last.looked

\* the statuses of the error taxonomy and of success
Taxonomy == {200, 201, 400, 401, 403, 404, 500}

\* C16: whatever the calls of a handler come back with, returning, returning
\* nothing or throwing, the handler ends having sent exactly one response,
\* with a status of the taxonomy, and no exception has left it.
C16_ExactlyOneResponse ==
    /\ Len(run.sent) <= 1
    /\ ~run.escaped
    /\ (run.done /\ run.h # "") =>
          /\ Len(run.sent) = 1
          /\ run.sent[1] \in Taxonomy
    /\ (run.done /\ run.threw # "") =>
          \/ run.sent = <<500>>
          \/ /\ run.sent = <<400>>
             /\ \/ run.h \in RegisterHandlers /\ run.threw = "User.create"
                \/ run.h \in ResetConfirmHandlers /\ run.threw = "jwt.verify"

\* a handler ended with 500 after its last call before the response threw
C16_Witness ==
    /\ run.done
    /\ run.h = "auth.resetConfirm"
    /\ run.threw = "user.update"
    /\ run.sent = <<500>>
    /\ ~run.escaped

\* the calls of the handler followed that went to call
CallsTo(call) == {i \in DOMAIN run.calls : run.calls[i].call = call}

\* sendResetMail was called and threw
MailFailed ==
    \E i \in CallsTo("sendResetMail") : run.calls[i].came = "throws"

\* C17: a reset-request whose lookup found the user calls sendResetMail at
\* most once; when that call throws, nothing is called after it (no second
\* send), the request ends with the one response 500, and at no point does the
\* handler call User.create or user.update.
C17_MailSentAtMostOnce ==
    run.h \in ResetRequestHandlers =>
       /\ Cardinality(CallsTo("sendResetMail")) <= 1
       /\ CallsTo("User.create") = {} /\ CallsTo("user.update") = {}
       /\ \A i \in CallsTo("sendResetMail") :
             /\ i = 4
             /\ run.calls[2] = [call |-> "User.findOne", came |-> "ok"]
             /\ run.calls[3] = [call |-> "jwt.sign", came |-> "ok"]
       /\ MailFailed =>
             /\ Len(run.calls) = 4
             /\ run.done => run.sent = <<500>>

\* a reset-request found its user, signed the token, called sendResetMail,
\* which threw, and ended with 500
C17_Witness ==
    /\ run.h = "file.resetRequest"
    /\ run.done
    /\ MailFailed
    /\ Cardinality(CallsTo("sendResetMail")) = 1
    /\ run.sent = <<500>>

\* the response of InvalidToken
InvalidToken == json(400, "Invalid token.")

\* the reset-confirm answered last carried a token that verified and whose
\* subject id matches no row
UnknownSubject ==
    /\ last.ep = "resetConfirm"
    /\ last.note = "noUser"
    /\ jwt_verify(last.body.token, jwtSecret, now).err \in {"", "TokenExpiredError"}
    /\ \A r \in users : r.id # last.body.token.id

\* the response of resetPassword to the same request carrying a token whose
\* signature does not match
BadSignatureResponse(body) ==
    resetPassword_start(users, [body EXCEPT !.token = Forged], jwtSecret, now).res

\* C18: a reset-confirm whose token verifies and whose subject id matches no
\* row is answered with InvalidToken, and that response is the very response
\* the same request gets with a token whose signature does not match.
C18_UnknownSubjectLikeBadSignature ==
    UnknownSubject =>
       /\ last.res = InvalidToken
       /\ last.res = BadSignatureResponse(last.body)

\* the first half on its own: the unknown subject is answered InvalidToken
UnknownSubjectIsInvalidToken ==
    UnknownSubject => last.res = InvalidToken

\* C19: in every step, every record keeps its id and its username and stays
\* the one record of its id; a record's password changes only in the step
\* that answers a reset-confirm with 200, and only when the record's id is
\* the subject of that request's token.
C19_OnlyTheSubjectsPasswordChanges ==
    [][\A r \in users :
          /\ Cardinality({n \in users' : n.id = r.id}) = 1
          /\ \A n \in users' :
                n.id = r.id =>
                   /\ n.username = r.username
                   /\ n.password # r.password =>
                         /\ last'.ep = "resetConfirm"
                         /\ last'.res = json(200, "Password reset successfully.")
                         /\ last'.body.token.id = r.id]_vars

\* a reset-confirm with a token of alice01 was answered 200 while the table
\* held a second record: alice01's record carries the new password, the other
\* record the password it was registered with
C19_Witness ==
    /\ last.ep = "resetConfirm"
    /\ last.res = json(200, "Password reset successfully.")
    /\ last.body.newPassword = "Qwerty9#"
    /\ \E r \in users, o \in users :
          /\ r.id = last.body.token.id
          /\ r.username = SeedBody.username
          /\ r.password.pre = "Qwerty9#"
          /\ o.id # r.id
          /\ o.username = "carol55"
          /\ o.password.pre = "Abcdef1!"

\* the records whose registration input (username, password, email) passes
\* the registration rules and whose password no reset has changed
RegisteredAsGiven ==
    {r \in users : resetLog = <<>> /\ registerSchema(BodyOf(r)) = Valid}

\* register answered 201 for the seed, and a login that carries the username of
\* a registered record and finds it is answered by the password alone: the
\* password of the registration gets a token for that record, any other
\* password InvalidCredentials
RegisterThenLogin ==
    /\ registerSchema(SeedBody) = Valid
    /\ Seeded.res = [json(201, "User registered successfully.") EXCEPT !.userId = 1]
    /\ \A r \in RegisteredAsGiven :
          (/\ last.ep = "login"
           /\ last.body.username = r.username
           /\ last.body.password # Undefined) =>
             /\ login_validate(last.via, last.body) = Valid
             /\ r.username = SeedBody.username => last.note # "noUser"
             /\ (last.body.password = r.password.pre /\ last.note # "noUser") =>
                   /\ last.res.status = 200
                   /\ last.res.token \in tokens
                   /\ last.res.token.id = r.id
             /\ last.body.password # r.password.pre => last.res = InvalidCredentials

\* a profile request with an unexpired token of a registered record returns
\* the record's id, username and email
ProfileOfRegistered ==
    \A r \in RegisteredAsGiven :
       (/\ last.ep = "profile"
        /\ last.body.token \in tokens
        /\ last.body.token.id = r.id
        /\ jwt_verify(last.body.token, jwtSecret, now).err = "") =>
          /\ last.res.status = 200
          /\ last.res.user.id = r.id
          /\ last.res.user.username = r.username
          /\ last.res.user.email = emailGiven[r.id]

\* C20: for an input accepted by registration with no prior conflict, register
\* returns 201, a following login with the same username and password passes
\* login validation and returns a token, a profile request with that token
\* returns the user's id, username and email, and a login with the same
\* username and another password returns InvalidCredentials.
C20_EndToEnd ==
    /\ RegisterThenLogin
    /\ ProfileOfRegistered

\* C21: when the signing secret is absent from the configuration the server
\* accepts no request: no request was accepted and none was answered.
C21_NoRequestWithoutSecret ==
    jwtSecret = Undefined =>
       /\ accepted = 0
       /\ last.ep = "none"

\* what does hold without a secret: no token is issued, no token is accepted,
\* no password changes
NothingSignedWithoutSecret ==
    jwtSecret = Undefined =>
       /\ tokens = {}
       /\ resetLog = <<>>
       /\ last.ep \in {"login", "profile", "resetConfirm"} => last.res.status # 200

\* the response of UserNotFound
UserNotFound == json(404, "User not found.")

\* the profile request answered last passed verifyToken with a token whose
\* subject id matches no row
ProfileOfUnknownSubject ==
    /\ last.ep = "profile"
    /\ last.looked
    /\ last.body.token.key = jwtSecret
    /\ \A r \in users : r.id # last.body.token.id

\* C22: a profile request whose token verifies and whose subject id matches
\* no row is answered with UserNotFound, and the response carries no user.
C22_UnknownSubjectNotFound ==
    ProfileOfUnknownSubject =>
       /\ last.res = UserNotFound
       /\ last.res.user = NoUser

\* the same for the route of userRoutes.js alone, which selects id and username
UnknownSubjectNotFoundOnUserRoutes ==
    (ProfileOfUnknownSubject /\ last.via = "user") =>
       /\ last.res = UserNotFound
       /\ last.res.user = NoUser

\* no response to an unknown subject carries a user, on either route
UnknownSubjectGetsNoUser ==
    ProfileOfUnknownSubject => last.res.user = NoUser

\* C23: a login that begins when the request answered last is a successful
\* reset-confirm with new password q for the user it names (so that no other
\* reset-confirm lies in between) reads the record with the hash of q; and a
\* login that found a record is answered 200 with a token for that record when
\* it carries the password the record's hash was made from, and
\* InvalidCredentials for every other password, the former password included.
C23_LoginAfterReset ==
    [][\A i \in Slots :
          /\ (/\ inflight[i] = Idle
              /\ inflight'[i].ep = "login"
              /\ last.ep = "resetConfirm"
              /\ last.res = ResetDone
              /\ \E r \in users : /\ r.id = last.body.token.id
                                  /\ r.username = inflight'[i].body.username) =>
                /\ inflight'[i].user.id = last.body.token.id
                /\ inflight'[i].user.password.kind = "bcrypt"
                /\ inflight'[i].user.password.pre = last.body.newPassword
          /\ (/\ inflight[i].ep = "login"
              /\ inflight'[i] = Idle
              /\ inflight[i].user # NoRow) =>
                /\ last'.ep = "login"
                /\ last'.body = inflight[i].body
                /\ IF inflight[i].body.password = inflight[i].user.password.pre
                   THEN /\ last'.res.status = 200
                        /\ last'.res.token.id = inflight[i].user.id
                        /\ last'.res.token \in tokens'
                   ELSE last'.res = InvalidCredentials]_vars

\* the password of alice01 was reset once, from Abcdef1! to Qwerty9#, and a
\* login that read the record after the reset was answered InvalidCredentials
\* for the former password
C23_Witness ==
    /\ Len(resetLog) = 1
    /\ resetLog[1].token.id = 1
    /\ \E r \in users : /\ r.username = SeedBody.username
                        /\ r.password.pre = "Qwerty9#"
    /\ last.ep = "login"
    /\ last.body.username = SeedBody.username
    /\ last.body.password = SeedBody.password
    /\ last.note = "badPassword"
    /\ last.res = InvalidCredentials

\* after the same reset, the login with the new password was answered 200
LoginWithNewPassword ==
    /\ Len(resetLog) = 1
    /\ last.ep = "login"
    /\ last.body.username = SeedBody.username
    /\ last.body.password = "Qwerty9#"
    /\ last.res.status = 200
    /\ last.res.token.id = 1

\* token tok is one the server signed, and it is not expired at the clock's
\* reading
SignedAndFresh(tok) ==
    /\ tok \in tokens
    /\ tok.form = "jwt"
    /\ tok.key = jwtSecret
    /\ tok.iat <= now /\ now < tok.exp

\* C24: a reset-confirm goes on to its update only with a token that passes
\* verification and for the record of the token's subject; and the password
\* of a record changes only in the step in which such a reset-confirm issues
\* its update, for that record only and to the hash of the request's new
\* password; no step of any other endpoint changes a password.
C24_PasswordChangesByVerifiedResetOnly ==
    [][/\ \A i \in Slots :
             (inflight[i] = Idle /\ inflight'[i].ep = "resetConfirm") =>
                /\ SignedAndFresh(inflight'[i].body.token)
                /\ inflight'[i].user \in users
                /\ inflight'[i].user.id = inflight'[i].body.token.id
       /\ \A r \in users, n \in users' :
             (n.id = r.id /\ n.password # r.password) =>
                \E i \in Slots :
                   /\ inflight[i].ep = "resetConfirm"
                   /\ inflight'[i] = Idle
                   /\ inflight[i].body.token.key = jwtSecret
                   /\ inflight[i].body.token \in tokens
                   /\ inflight[i].body.token.id = r.id
                   /\ n.password.kind = "bcrypt"
                   /\ n.password.pre = inflight[i].body.newPassword
                   /\ \A j \in Slots \ {i} : inflight'[j] = inflight[j]]_vars

\* the one record of the table carries another password than the one it was
\* registered with, and the request answered last is the reset-confirm that
\* wrote it, with a token the server signed for that record
C24_Witness ==
    /\ last.ep = "resetConfirm"
    /\ last.res = ResetDone
    /\ last.body.token \in tokens
    /\ last.body.token.key = jwtSecret
    /\ users = {[id |-> last.body.token.id, username |-> SeedBody.username,
                 password |-> bcrypt_hash(last.body.newPassword, SaltRounds, 1)]}
    /\ last.body.newPassword # SeedBody.password

\* the resets of the record id that were answered 200, by their place in the log
ResetsOf(id) == {k \in DOMAIN resetLog : resetLog[k].token.id = id}

\* C25: a reset-confirm that has passed on to its update is answered 200 and
\* leaves its own hash in the record, whatever other reset-confirm for the
\* same user is in flight or was written since it read the record, and it
\* leaves the other one in flight as it was; so of two interleaved
\* reset-confirms both succeed, and in every state the password of a record
\* that was reset is the hash of the new password of the reset written last.
C25_LastWriteWins ==
    [][/\ \A i \in Slots :
             (inflight[i].ep = "resetConfirm" /\ inflight'[i] = Idle) =>
                /\ last'.res = ResetDone
                /\ last'.body = inflight[i].body
                /\ \E n \in users' : /\ n.id = inflight[i].user.id
                                     /\ n.password = inflight[i].hashed
                /\ \A j \in Slots \ {i} : inflight'[j] = inflight[j]
       /\ \A n \in users' :
             ResetsOf(n.id)' # {} =>
                LET m == CHOOSE k \in ResetsOf(n.id)' :
                            \A l \in ResetsOf(n.id)' : l <= k
                IN  /\ n.password.kind = "bcrypt"
                    /\ n.password.cost = SaltRounds
                    /\ n.password.pre = resetLog'[m].newPassword]_vars

\* two reset-confirms for alice01 with different new passwords were both
\* answered 200, the second of them accepted before the first was written,
\* and the record carries the hash of the new password of the second
C25_Witness ==
    /\ Len(resetLog) = 2
    /\ resetLog[1].token.id = 1 /\ resetLog[2].token.id = 1
    /\ ~resetLog[2].replay
    /\ resetLog[1].newPassword # resetLog[2].newPassword
    /\ last.ep = "resetConfirm" /\ last.res = ResetDone
    /\ \A i \in Slots : inflight[i] = Idle
    /\ \E r \in users : /\ r.id = 1
                        /\ r.password.pre = resetLog[2].newPassword
                        /\ r.password.pre # SeedBody.password

\* C26: a step that answers a login, a profile request or a reset-request, or
\* that parks a login at its lookup, leaves the table as it is, whatever the
\* response; the table changes only in a step that answers a register with
\* 201, by one added record, or a reset-confirm with 200, by the password of
\* one record.
C26_OnlyRegisterAndResetWrite ==
    [][/\ (last' # last /\ last'.ep \in {"login", "profile", "resetRequest"}) =>
             users' = users
       /\ (\E i \in Slots : inflight'[i] # inflight[i]
                               /\ "login" \in {inflight[i].ep, inflight'[i].ep}) =>
             users' = users
       /\ users' # users =>
             \/ /\ last'.ep = "register"
                /\ last'.res.status = 201
                /\ users \subseteq users'
                /\ Cardinality(users') = Cardinality(users) + 1
             \/ /\ last'.ep = "resetConfirm"
                /\ last'.res = ResetDone
                /\ {[id |-> r.id, username |-> r.username] : r \in users'}
                      = {[id |-> r.id, username |-> r.username] : r \in users}
                /\ Cardinality(users' \ users) = 1]_vars

\* three requests were answered, among them a login that returned a token and,
\* last, a reset-request for the registered email that reached the store; no
\* reset was written, and the table is the one the server started with
C26_Witness ==
    /\ tokens # {}
    /\ last.ep = "resetRequest"
    /\ last.body.email = SeedBody.email
    /\ last.looked
    /\ accepted = 3
    /\ resetLog = <<>>
    /\ \A i \in Slots : inflight[i] = Idle
    /\ users = Seeded.rows

\* what resetPasswordRequest does once User.findOne has returned record r for
\* the email e of the request
RequestFor(r, e) ==
    resetPasswordRequest_finish([err |-> "", row |-> r],
                                [NoBody EXCEPT !.email = e], jwtSecret, now)

\* C27: a response carries a token only in the step that answers a login with
\* 200, and the token is one for the record the login read, whose hash was
\* made from the password of the request; the response of a reset-request
\* carries no token, on any path, and the token it signs for a record goes
\* into the one mail, addressed to the email the record was looked up by.
C27_TokenOnlyInLoginSuccess ==
    [][/\ (last' # last /\ last'.res.token # NoToken) =>
             /\ last'.ep = "login"
             /\ last'.res.status = 200
             /\ last'.res.token \in tokens'
             /\ \E i \in Slots :
                   /\ inflight[i].ep = "login" /\ inflight'[i] = Idle
                   /\ inflight[i].user.id = last'.res.token.id
                   /\ inflight[i].user.username = last'.body.username
                   /\ inflight[i].user.password.kind = "bcrypt"
                   /\ inflight[i].user.password.pre = last'.body.password
       /\ last'.ep = "resetRequest" => last'.res.token = NoToken
       /\ \A m \in mails' \ mails :
             last'.ep = "resetRequest" /\ m.to = last'.body.email
       /\ \A r \in users', e \in Emails :
             /\ RequestFor(r, e)'.res = json(200, "Reset link sent successfully.")
             /\ RequestFor(r, e)'.res.token = NoToken
             /\ RequestFor(r, e)'.mail.to = e
             /\ RequestFor(r, e)'.mail.link.id = r.id
             /\ RequestFor(r, e)'.mail.link.key = jwtSecret']_vars

\* a login of alice01 with the password of her record was answered 200 with
\* the one token issued so far; no mail went out
C27_Witness ==
    /\ last.ep = "login"
    /\ last.note = "loggedIn"
    /\ last.body = [NoBody EXCEPT !.username = SeedBody.username,
                                  !.password = SeedBody.password]
    /\ last.res.token.id = 1
    /\ tokens = {last.res.token}
    /\ mails = {}
    /\ users = Seeded.rows

\* the requests the two versions of a handler are run on
RegisterBodies ==
    {[NoBody EXCEPT !.username = u, !.password = p, !.email = e] :
        u \in ShortUsernames \cup Usernames,
        p \in WeakPasswordInputs,
        e \in Emails \cup {Undefined}}

LoginBodies ==
    {[NoBody EXCEPT !.username = u, !.password = p] :
        u \in ShortUsernames \cup Usernames \cup {Undefined},
        p \in WeakPasswordInputs \cup PasswordInputs}

ResetRequestBodies == {[NoBody EXCEPT !.email = e] : e \in Emails \cup {Undefined}}

ResetBodies ==
    {[NoBody EXCEPT !.token = tok, !.newPassword = p] :
        tok \in Presentable \cup {NoToken},
        p \in WeakPasswordInputs \cup PasswordInputs}

\* C28: in every state, on every request, the handler of routes/auth/*.js and
\* the handler of authRoutes.js for the same endpoint, run on the same table
\* at the same instant with the same secret and the same salt, yield the same
\* response, the same table and the same mail.
C28_HandlersAgree ==
    /\ \A b \in RegisterBodies, salt \in Salts :
          exports_register(users, b, salt) = router_register(users, b, salt)
    /\ \A b \in LoginBodies :
          exports_login(users, b, jwtSecret, now) = router_login(users, b, jwtSecret, now)
    /\ \A b \in ResetRequestBodies :
          exports_resetPasswordRequest(users, b, jwtSecret, now)
             = router_resetPasswordRequest(users, b, jwtSecret, now)
    /\ \A b \in ResetBodies, salt \in Salts :
          exports_resetPassword(users, b, jwtSecret, now, salt)
             = router_resetPassword(users, b, jwtSecret, now, salt)

\* the table holds two records and a token is in circulation, and on that
\* state the two versions of each handler reach their success paths and their
\* refusals alike: a login is answered 200 by both, a reset-confirm with the
\* token changes the same record in both, a second registration of alice01 is
\* refused by both
C28_Witness ==
    /\ Cardinality(users) = 2
    /\ \E tok \in tokens :
          LET b == [NoBody EXCEPT !.token = tok, !.newPassword = "Qwerty9#"]
          IN  /\ exports_resetPassword(users, b, jwtSecret, now, 1).res = ResetDone
              /\ router_resetPassword(users, b, jwtSecret, now, 1).res = ResetDone
              /\ exports_resetPassword(users, b, jwtSecret, now, 1).rows # users
    /\ exports_login(users, [NoBody EXCEPT !.username = "alice01",
                                           !.password = "Abcdef1!"],
                     jwtSecret, now).res.status = 200
    /\ router_register(users, SeedBody, 1).res
          = json(400, "Username or email already exists.")

\* the handler of authRoutes.js for the endpoint of a handler of routes/auth
Twin(h) ==
    CASE h = "file.register" -> "auth.register"
      [] h = "file.login" -> "auth.login"
      [] h = "file.resetRequest" -> "auth.resetRequest"
      [] h = "file.resetConfirm" -> "auth.resetConfirm"
      [] OTHER -> h

\* the responses handler h sends when its calls, from the k-th on, come back
\* with the outcomes outs
RECURSIVE Replay(_, _, _)
Replay(h, outs, k) ==
    IF k > Len(Calls(h)) \/ k > Len(outs)
    THEN <<>>
    ELSE LET c == Calls(h)[k]
             e == Effect(h, c, outs[k])
         IN  CASE e.throw # "" /\ InTry(h, c) -> <<Catch(h, e.throw)>>
               [] e.throw # "" -> <<>>
               [] e.stop -> <<e.send>>
               [] OTHER -> Replay(h, outs, k + 1)

\* a handler of routes/auth that was followed to its end, its calls coming
\* back in whatever way, makes the calls its twin of authRoutes.js makes and
\* sends what the twin sends when the twin's calls come back in the same way
SameUnderEveryOutcome ==
    (run.done /\ run.h # "") =>
       /\ Calls(Twin(run.h)) = Calls(run.h)
       /\ Replay(Twin(run.h), [i \in DOMAIN run.calls |-> run.calls[i].came], 1)
             = run.sent

====
